---- MODULE Spec2Model ----
(***************************************************************************)
(* Model of Stashly's backup orchestration: Dumpster.Dump, which runs      *)
(* CreateDump (runPreChecks, export, archive, optional encryption, upload) *)
(* and then PurgeDumps (ListDumps, retention purge), against a storage     *)
(* backend, an executor, an archiver and an encryptor that may each fail;  *)
(* doBackup, which runs CreateDump and PurgeDumps itself and notifies      *)
(* their outcome; and the Notifier store the notifications go through.     *)
(* Every call to a collaborator is one step of the run.                    *)
(***************************************************************************)
EXTENDS Integers, Sequences, FiniteSets, TLC

(* ------------------------------ bounds --------------------------------- *)

\* Longest psql output, in characters.
MaxOutputLen == 3

\* Largest number of backups of this instance in storage before the first
\* Dump; they carry the timestamps 1..n.
MaxStored == 3

\* Largest configured retention count.
MaxRetention == 3

\* Largest number of Dump invocations in one behaviour of SpecRuns.
MaxRuns == 2

(* --------------------------- value domains ----------------------------- *)

\* Characters a psql output is made of: name characters, blank, line feed.
Alphabet == {"a", "b", " ", "\n"}

\* What strings.TrimSpace strips (the line feed is consumed by Split).
Whitespace == {" ", "\n"}

\* The errors each collaborator may return. They are opaque error values; the
\* storage backend returns the same kinds from Upload, List and Delete.
OsErrs == {"permission denied", "device or resource busy"}

ExecErrs == {"exit status 1", "executable file not found"}

\* The error of a failing pg_dump is only logged: one value stands for all.
PgDumpErrs == {"exit status 1"}

ArchiveErrs == {"archive: no space left", "archive: read error"}

GpgErrs == {"gpg: key not found", "gpg: key server unreachable"}

StoreErrs == {"context deadline exceeded", "access denied"}

\* The storage prefix of this instance and one of another instance.
Prefix == "pfx/inst"

OtherPrefix == "pfx/other"

BackupLocation == <<"tmp", "export">>

\* A file left in the backup location by an earlier run.
StaleFile == <<<<"o">>, ".sql">>

NoKey == 0

\* A retention count below 0.
NegativeRetention == -1

\* ctxDoneAt while ctx has not been cancelled.
NotDone == -1

\* An Enabled flag of the configuration: Enabled() returns the field of the
\* shared config at the moment it is called, so the flag is Unread until the
\* first call and keeps the value that call found.
Unread == "unread"

On == "on"

Off == "off"

\* The values an Enabled() call can find for a flag.
Read(flag) == IF flag = Unread THEN {On, Off} ELSE {flag}

\* The error of a notifier's webhook client.
SendErrs == {"webhook: 429 too many requests"}

\* The error of discord.NewClient.
ClientErrs == {"discord: empty webhook url"}

\* The three notifications of NotifierStoreIface.
Notifications == {"NotifyBackupSuccess", "NotifyBackupFailure", "NotifyBackupDeleteFailure"}

\* ErrNotifierDisabled = errors.New("notifier is disabled")
ErrNotifierDisabled == "notifier is disabled"

\* ErrNotifiersDisabled = errors.New("notifiers are disabled")
ErrNotifiersDisabled == "notifiers are disabled"

(* ------------------------------ errors --------------------------------- *)

\* An error value as the caller sees it: message, key named, wrapped cause.
\* msg is the text the code adds (a tuple of its parts), cause the error wrapped.
Err(msg, k, cause) == [msg |-> msg, key |-> k, cause |-> cause]

Nil == Err(<<>>, NoKey, "")

\* An error of a collaborator returned unchanged.
Raw(e) == Err(<<>>, NoKey, e)

\* errors.New("no databases were exported")
ErrZeroExport == Err(<<"no databases were exported">>, NoKey, "")

\* fmt.Errorf("%s not found in PATH: %w", bin, err)
ErrLookPath(bin, e) == Err(<<bin, "not found in PATH">>, NoKey, e)

\* fmt.Errorf("error getting list of databases: %w", err)
ErrListDatabases(e) == Err(<<"error getting list of databases">>, NoKey, e)

\* fmt.Errorf("error deleting backup %s: %w", key, sErr)
ErrDelete(k, e) == Err(<<"error deleting backup">>, k, e)

(* ------------------------- enumeration parsing ------------------------- *)

\* Index of the first line feed of s, 0 if none.
IndexLF(s) ==
    IF \E i \in 1..Len(s) : s[i] = "\n"
    THEN CHOOSE i \in 1..Len(s) : s[i] = "\n" /\ \A j \in 1..(i - 1) : s[j] # "\n"
    ELSE 0

RECURSIVE Split(_)
\* strings.Split(s, "\n"): the pieces between line feeds, Len = separators + 1.
Split(s) ==
    IF IndexLF(s) = 0
    THEN <<s>>
    ELSE <<SubSeq(s, 1, IndexLF(s) - 1)>> \o Split(SubSeq(s, IndexLF(s) + 1, Len(s)))

RECURSIVE TrimLeft(_)
TrimLeft(s) ==
    IF s # <<>> /\ Head(s) \in Whitespace THEN TrimLeft(Tail(s)) ELSE s

RECURSIVE TrimRight(_)
TrimRight(s) ==
    IF s # <<>> /\ s[Len(s)] \in Whitespace
    THEN TrimRight(SubSeq(s, 1, Len(s) - 1))
    ELSE s

\* strings.TrimSpace
TrimSpace(s) == TrimRight(TrimLeft(s))

RECURSIVE CollectDatabasesKeepsBlank(_)
\* Variant of CollectDatabases that trims the lines but keeps the empty ones.
CollectDatabasesKeepsBlank(lines) ==
    IF lines = <<>>
    THEN <<>>
    ELSE <<TrimSpace(Head(lines))>> \o CollectDatabasesKeepsBlank(Tail(lines))

RECURSIVE CollectDatabases(_)
\* The loop over the lines: trim, skip the empty ones, append the rest.
CollectDatabases(lines) ==
    IF lines = <<>>
    THEN <<>>
    ELSE IF TrimSpace(Head(lines)) = <<>>
         THEN CollectDatabases(Tail(lines))
         ELSE <<TrimSpace(Head(lines))>> \o CollectDatabases(Tail(lines))

ParseDatabases(output) == CollectDatabases(Split(output))

\* Every psql output of at most MaxOutputLen characters.
PsqlOutputs == UNION {[1..n -> Alphabet] : n \in 0..MaxOutputLen}

(* ------------------------------ storage -------------------------------- *)

Key(prefix, ts) == [prefix |-> prefix, ts |-> ts]

\* Keys of another instance sharing the bucket.
OtherKeys == {Key(OtherPrefix, 1)}

\* S3.List: the keys under this instance's prefix.
List(st) == {k \in st : k.prefix = Prefix}

\* S3.TrimPrefix: the timestamp segment of each key.
TrimPrefix(ks) == [i \in 1..Len(ks) |-> ks[i].ts]

\* S3.Delete: the key is rebuilt from the prefix and the timestamp.
Delete(st, ts) == st \ {Key(Prefix, ts)}

RECURSIVE Listings(_)
\* The orders in which a listing of the keys S may come back.
Listings(S) ==
    IF S = {}
    THEN {<<>>}
    ELSE UNION {{<<k>> \o rest : rest \in Listings(S \ {k})} : k \in S}

RECURSIVE SortDateTimes(_)
\* datetime.SortDateTimes: most recent first.
SortDateTimes(ts) ==
    IF ts = <<>>
    THEN <<>>
    ELSE LET m == CHOOSE i \in 1..Len(ts) : \A j \in 1..Len(ts) : ts[j] <= ts[i]
         IN  <<ts[m]>> \o SortDateTimes([i \in 1..(Len(ts) - 1) |-> IF i < m THEN ts[i] ELSE ts[i + 1]])

(* ------------------------------- state --------------------------------- *)

VARIABLES
    pc,                 \* the next step of the run
    cfg,                \* Backup.Encrypt, Backup.RetentionCount
    store,              \* the keys held by the storage backend
    now,                \* the timestamp the next upload is keyed with
    dirExists,          \* whether the backup location exists
    files,              \* the files in the backup location
    tempFiles,          \* the files in os.TempDir() beside the backup location
    ctxDoneAt,          \* number of calls made when ctx was cancelled
    binIdx,             \* runPreChecks: position in binaries
    databases,          \* export: the enumerated database names
    totalDatabases,     \* export: counter
    exportedDatabases,  \* export: counter
    dbIdx,              \* export: position in databases
    output,             \* export: what the psql query printed
    dumpResp,           \* CreateDump: the response being built
    archivePath,        \* CreateDump: path returned by the archiver
    uploadFilePath,     \* CreateDump: path handed to Upload
    archived,           \* the files the archiver found in the backup location
    resp,               \* Dump: result of CreateDump (<<>> is nil)
    err,                \* Dump: error of CreateDump
    keys,               \* PurgeDumps: the sorted listing
    keysToDelete,       \* PurgeDumps: keys[RetentionCount:]
    delIdx,             \* PurgeDumps: position in keysToDelete
    keysNil,            \* PurgeDumps: whether keys is the nil slice
    pErr,               \* Dump: error of PurgeDumps
    ret,                \* what Dump returned
    calls,              \* the collaborator calls of this run, in order
    runs,               \* number of Dump invocations so far
    prev,               \* what the previous Dump returned and stored
    notifiersEnabled,   \* cfg.Notifiers.Enabled, as far as it has been read
    notifierStore,      \* Notifier.store: the registered notifiers
    method,             \* the Notifier method being executed
    nIdx,               \* Notifier: position in store
    otherPc,            \* the next step of a CreateDump of a second Dumpster
    overlap             \* whether the two CreateDump runs have overlapped

envVars == <<cfg, store, now, dirExists, files>>

preVars == <<binIdx>>

exportVars == <<databases, totalDatabases, exportedDatabases, dbIdx, output>>

createVars == <<dumpResp, archivePath, uploadFilePath, archived>>

purgeVars == <<keys, keysToDelete, delIdx, keysNil>>

dumpVars == <<resp, err, pErr, ret>>

histVars == <<runs, prev>>

notifyVars == <<notifiersEnabled, notifierStore, method, nIdx>>

otherVars == <<otherPc, overlap>>

sideVars == <<tempFiles, ctxDoneAt, notifyVars, otherVars>>

vars ==
    <<pc, envVars, preVars, exportVars, createVars, purgeVars, dumpVars, calls, histVars,
      sideVars>>

\* binaries := []string{"psql", "pg_dump"}
binaries == <<"psql", "pg_dump">>

EmptyKey == Key("", NoKey)

\* The zero DumpResponse.
ZeroDumpResponse ==
    [TotalDatabases |-> 0, ExportedDatabases |-> 0, DumpLocation |-> <<>>,
     ArchiveLocation |-> <<>>, StorageKey |-> EmptyKey]

\* file.ArchiveDir's result for the backup location.
ArchiveFile == <<"tmp", "export.tar.gz">>

\* gpg.EncryptFile's result for a file.
EncryptedPath(p) == Append(p, ".gpg")

\* The dump file of a database: db + ".sql" in the backup location.
OutFile(db) == <<db, ".sql">>

\* A recorded call of a collaborator: its argument and the error it returned
\* ("" for none).
Call(op, arg, e) == [op |-> op, arg |-> arg, err |-> e]

Ok(c) == c.err = ""

NoPrev == [ran |-> FALSE, err |-> Nil, stored |-> FALSE]

\* ctx.Done() is closed.
CtxDone == ctxDoneAt # NotDone

\* Whether this run's Upload has stored a backup.
Uploaded == \E i \in 1..Len(calls) : calls[i].op = "Upload" /\ Ok(calls[i])

\* NewDumpster, and the environment it runs in, for a configuration whose
\* retention count is one of retentionCounts.
InitFor(retentionCounts) ==
    /\ pc = "idle"
    /\ cfg \in [Encrypt : BOOLEAN, RetentionCount : retentionCounts]
    /\ \E n \in 0..MaxStored : store = OtherKeys \cup {Key(Prefix, t) : t \in 1..n}
    /\ now = MaxStored + 1
    /\ files \in SUBSET {StaleFile}
    /\ dirExists \in {d \in BOOLEAN : files # {} => d}
    /\ binIdx = 1
    /\ databases = <<>>
    /\ totalDatabases = 0
    /\ exportedDatabases = 0
    /\ dbIdx = 1
    /\ output = <<>>
    /\ dumpResp = ZeroDumpResponse
    /\ archivePath = <<>>
    /\ uploadFilePath = <<>>
    /\ archived = {}
    /\ resp = <<>>
    /\ err = Nil
    /\ keys = <<>>
    /\ keysToDelete = <<>>
    /\ delIdx = 1
    /\ keysNil = TRUE
    /\ pErr = Nil
    /\ ret = [resp |-> <<>>, err |-> Nil]
    /\ calls = <<>>
    /\ tempFiles = {}
    /\ ctxDoneAt = NotDone
    /\ runs = 0
    /\ prev = NoPrev
    /\ notifiersEnabled = Unread
    /\ notifierStore = <<>>
    /\ method = ""
    /\ nIdx = 1
    /\ otherPc = "idle"
    /\ overlap = FALSE

\* A configuration with a retention count of 0 or more.
Init == InitFor(0..MaxRetention)

\* A configuration whose retention count may be negative: RetentionCount is
\* an int and PurgeDumps does not check it.
InitAnyRetention == InitFor(NegativeRetention..MaxRetention)

(* ------------------------------ Dump --------------------------------- *)

\* A call of Dump: CreateDump starts with runPreChecks.
StartRun ==
    /\ pc' = "RemoveAll"
    /\ binIdx' = 1
    /\ databases' = <<>>
    /\ totalDatabases' = 0
    /\ exportedDatabases' = 0
    /\ dbIdx' = 1
    /\ output' = <<>>
    /\ dumpResp' = ZeroDumpResponse
    /\ archivePath' = <<>>
    /\ uploadFilePath' = <<>>
    /\ archived' = {}
    /\ resp' = <<>>
    /\ err' = Nil
    /\ keys' = <<>>
    /\ keysToDelete' = <<>>
    /\ delIdx' = 1
    /\ keysNil' = TRUE
    /\ pErr' = Nil
    /\ ret' = [resp |-> <<>>, err |-> Nil]
    /\ calls' = <<>>
    /\ runs' = runs + 1
    /\ overlap' = (overlap \/ otherPc \notin {"idle", "done"})
    /\ UNCHANGED <<envVars, tempFiles, ctxDoneAt, notifyVars, otherPc>>

Dump ==
    /\ pc = "idle"
    /\ StartRun
    /\ UNCHANGED prev

\* CreateDump returns (r, e) to its caller.
CreateDumpReturns(r, e) ==
    /\ resp' = r
    /\ err' = e
    /\ pc' = "CreateDumpReturn"
    /\ UNCHANGED <<pErr, ret>>

(* --------------------------- runPreChecks ------------------------------ *)

\* Variant of RemoveAllOk that removes the backup location only when it is
\* empty (os.Remove instead of os.RemoveAll).
RemoveAllOkKeepsFiles ==
    /\ pc = "RemoveAll"
    /\ calls' = Append(calls, Call("RemoveAll", BackupLocation, ""))
    /\ dirExists' = (files # {})
    /\ pc' = "MkdirAll"
    /\ UNCHANGED <<cfg, store, now, files, preVars, exportVars, createVars, purgeVars, dumpVars,
                   histVars, sideVars>>

RemoveAllOk ==
    /\ pc = "RemoveAll"
    /\ calls' = Append(calls, Call("RemoveAll", BackupLocation, ""))
    /\ dirExists' = FALSE
    /\ files' = {}
    /\ pc' = "MkdirAll"
    /\ UNCHANGED <<cfg, store, now, preVars, exportVars, createVars, purgeVars, dumpVars,
                   histVars, sideVars>>

RemoveAllFail ==
    /\ pc = "RemoveAll"
    /\ \E e \in OsErrs :
          /\ calls' = Append(calls, Call("RemoveAll", BackupLocation, e))
          /\ CreateDumpReturns(<<>>, Raw(e))
    /\ UNCHANGED <<envVars, preVars, exportVars, createVars, purgeVars, histVars, sideVars>>

MkdirAllOk ==
    /\ pc = "MkdirAll"
    /\ calls' = Append(calls, Call("MkdirAll", BackupLocation, ""))
    /\ dirExists' = TRUE
    /\ binIdx' = 1
    /\ pc' = "LookPath"
    /\ UNCHANGED <<cfg, store, now, files, exportVars, createVars, purgeVars, dumpVars,
                   histVars, sideVars>>

MkdirAllFail ==
    /\ pc = "MkdirAll"
    /\ \E e \in OsErrs :
          /\ calls' = Append(calls, Call("MkdirAll", BackupLocation, e))
          /\ CreateDumpReturns(<<>>, Raw(e))
    /\ UNCHANGED <<envVars, preVars, exportVars, createVars, purgeVars, histVars, sideVars>>

LookPathOk ==
    /\ pc = "LookPath"
    /\ calls' = Append(calls, Call("LookPath", binaries[binIdx], ""))
    /\ IF binIdx < Len(binaries)
       THEN binIdx' = binIdx + 1 /\ pc' = "LookPath"
       ELSE binIdx' = binIdx /\ pc' = "psql"
    /\ UNCHANGED <<envVars, exportVars, createVars, purgeVars, dumpVars, histVars, sideVars>>

\* Variant of LookPathFail that goes on to the next binary and reports the
\* failure only after the last one.
LookPathFailContinues ==
    /\ pc = "LookPath"
    /\ \E e \in ExecErrs :
          /\ calls' = Append(calls, Call("LookPath", binaries[binIdx], e))
          /\ IF binIdx < Len(binaries)
             THEN binIdx' = binIdx + 1 /\ pc' = "LookPath" /\ UNCHANGED dumpVars
             ELSE binIdx' = binIdx /\ CreateDumpReturns(<<>>, ErrLookPath(binaries[binIdx], e))
    /\ UNCHANGED <<envVars, exportVars, createVars, purgeVars, histVars, sideVars>>

LookPathFail ==
    /\ pc = "LookPath"
    /\ \E e \in ExecErrs :
          /\ calls' = Append(calls, Call("LookPath", binaries[binIdx], e))
          /\ CreateDumpReturns(<<>>, ErrLookPath(binaries[binIdx], e))
    /\ UNCHANGED <<envVars, preVars, exportVars, createVars, purgeVars, histVars, sideVars>>

(* ------------------------------ export --------------------------------- *)

\* The psql query succeeds: its output is split into trimmed non-empty lines.
PsqlOk ==
    /\ pc = "psql"
    /\ ~CtxDone
    /\ output' \in PsqlOutputs
    /\ databases' = ParseDatabases(output')
    /\ totalDatabases' = Len(ParseDatabases(output'))
    /\ calls' = Append(calls, Call("psql", <<>>, ""))
    /\ exportedDatabases' = 0
    /\ dbIdx' = 1
    /\ pc' = "pg_dump"
    /\ UNCHANGED <<envVars, preVars, createVars, purgeVars, dumpVars, histVars, sideVars>>

\* Variant of PsqlFail in which the error of the query is dropped and the
\* export goes on with no database.
PsqlFailIgnored ==
    /\ pc = "psql"
    /\ \E e \in ExecErrs : calls' = Append(calls, Call("psql", <<>>, e))
    /\ pc' = "pg_dump"
    /\ UNCHANGED <<envVars, preVars, exportVars, createVars, purgeVars, dumpVars, histVars,
                   sideVars>>

PsqlFail ==
    /\ pc = "psql"
    /\ \E e \in ExecErrs :
          /\ calls' = Append(calls, Call("psql", <<>>, e))
          /\ CreateDumpReturns(<<>>, ErrListDatabases(e))
    /\ UNCHANGED <<envVars, preVars, exportVars, createVars, purgeVars, histVars, sideVars>>

\* Variant of PgDumpOk that counts the database without its file being
\* written.
PgDumpOkWritesNothing ==
    /\ pc = "pg_dump"
    /\ dbIdx <= Len(databases)
    /\ ~CtxDone
    /\ dirExists
    /\ calls' = Append(calls, Call("pg_dump", databases[dbIdx], ""))
    /\ exportedDatabases' = exportedDatabases + 1
    /\ dbIdx' = dbIdx + 1
    /\ UNCHANGED <<pc, envVars, preVars, databases, totalDatabases, output,
                   createVars, purgeVars, dumpVars, histVars, sideVars>>

\* pg_dump of databases[dbIdx] succeeds: the file is written into the backup
\* location, which has to exist, and counted.
PgDumpOk ==
    /\ pc = "pg_dump"
    /\ dbIdx <= Len(databases)
    /\ ~CtxDone
    /\ dirExists
    /\ calls' = Append(calls, Call("pg_dump", databases[dbIdx], ""))
    /\ files' = files \cup {OutFile(databases[dbIdx])}
    /\ exportedDatabases' = exportedDatabases + 1
    /\ dbIdx' = dbIdx + 1
    /\ UNCHANGED <<pc, cfg, store, now, dirExists, preVars, databases, totalDatabases, output,
                   createVars, purgeVars, dumpVars, histVars, sideVars>>

\* Variant of PgDumpFail in which a failing dump ends the loop (break
\* instead of continue).
PgDumpFailBreaks ==
    /\ pc = "pg_dump"
    /\ dbIdx <= Len(databases)
    /\ \E e \in PgDumpErrs : calls' = Append(calls, Call("pg_dump", databases[dbIdx], e))
    /\ dbIdx' = Len(databases) + 1
    /\ UNCHANGED <<pc, envVars, preVars, databases, totalDatabases, exportedDatabases,
                   output, createVars, purgeVars, dumpVars, histVars, sideVars>>

\* Variant of PgDumpFail that counts the failed dump as exported.
PgDumpFailCounts ==
    /\ pc = "pg_dump"
    /\ dbIdx <= Len(databases)
    /\ \E e \in PgDumpErrs : calls' = Append(calls, Call("pg_dump", databases[dbIdx], e))
    /\ exportedDatabases' = exportedDatabases + 1
    /\ dbIdx' = dbIdx + 1
    /\ UNCHANGED <<pc, envVars, preVars, databases, totalDatabases, output, createVars,
                   purgeVars, dumpVars, histVars, sideVars>>

\* pg_dump of databases[dbIdx] fails: logged, and the loop continues.
PgDumpFail ==
    /\ pc = "pg_dump"
    /\ dbIdx <= Len(databases)
    /\ \E e \in PgDumpErrs : calls' = Append(calls, Call("pg_dump", databases[dbIdx], e))
    /\ dbIdx' = dbIdx + 1
    /\ UNCHANGED <<pc, envVars, preVars, databases, totalDatabases, exportedDatabases,
                   output, createVars, purgeVars, dumpVars, histVars, sideVars>>

\* Variant of NoneExported that never rejects an export.
NoneExportedNever(n) == n < 0

\* if resp.exportedDatabases <= 0
NoneExported(n) == n <= 0

\* export returns its counters and its output variable ends; CreateDump
\* builds dumpResp and rejects an export of no database.
ExportReturn ==
    /\ pc = "pg_dump"
    /\ dbIdx > Len(databases)
    /\ dumpResp' = [ZeroDumpResponse EXCEPT !.TotalDatabases = totalDatabases,
                                            !.ExportedDatabases = exportedDatabases,
                                            !.DumpLocation = BackupLocation]
    /\ IF NoneExported(exportedDatabases)
       THEN CreateDumpReturns(<<>>, ErrZeroExport)
       ELSE pc' = "ArchiveDir" /\ UNCHANGED dumpVars
    /\ output' = <<>>
    /\ UNCHANGED <<envVars, preVars, databases, totalDatabases, exportedDatabases, dbIdx,
                   archivePath, uploadFilePath, archived, purgeVars, calls, histVars,
                   sideVars>>

(* ----------------------- archive, encrypt, upload ---------------------- *)

\* Variant of AfterArchive that uploads the archive as it is.
AfterArchiveSkipsEncryption(encrypt) == "Upload"

\* if d.cfg.Backup.Encrypt: the stage that follows the archive.
AfterArchive(encrypt) == IF encrypt THEN "FetchGPGPubKey" ELSE "Upload"

\* file.ArchiveDir packs what the backup location holds at that moment; the
\* location has to exist.
ArchiveDirOk ==
    /\ pc = "ArchiveDir"
    /\ dirExists
    /\ calls' = Append(calls, Call("ArchiveDir", dumpResp.DumpLocation, ""))
    /\ archivePath' = ArchiveFile
    /\ uploadFilePath' = ArchiveFile
    /\ archived' = files
    /\ tempFiles' = tempFiles \cup {ArchiveFile}
    /\ pc' = AfterArchive(cfg.Encrypt)
    /\ UNCHANGED <<envVars, preVars, exportVars, dumpResp, purgeVars, dumpVars, histVars,
                   ctxDoneAt, notifyVars, otherVars>>

\* Variant of ArchiveDirFail in which the archiver's error is ignored and the
\* upload still runs.
ArchiveDirFailIgnored ==
    /\ pc = "ArchiveDir"
    /\ \E e \in ArchiveErrs :
          calls' = Append(calls, Call("ArchiveDir", dumpResp.DumpLocation, e))
    /\ pc' = "Upload"
    /\ UNCHANGED <<envVars, preVars, exportVars, createVars, purgeVars, dumpVars,
                   histVars, sideVars>>

ArchiveDirFail ==
    /\ pc = "ArchiveDir"
    /\ \E e \in ArchiveErrs :
          /\ calls' = Append(calls, Call("ArchiveDir", dumpResp.DumpLocation, e))
          /\ CreateDumpReturns(<<>>, Raw(e))
    /\ UNCHANGED <<envVars, preVars, exportVars, createVars, purgeVars, histVars, sideVars>>

FetchGPGPubKeyOk ==
    /\ pc = "FetchGPGPubKey"
    /\ calls' = Append(calls, Call("FetchGPGPubKey", <<>>, ""))
    /\ pc' = "EncryptFile"
    /\ UNCHANGED <<envVars, preVars, exportVars, createVars, purgeVars, dumpVars,
                   histVars, sideVars>>

FetchGPGPubKeyFail ==
    /\ pc = "FetchGPGPubKey"
    /\ \E e \in GpgErrs :
          /\ calls' = Append(calls, Call("FetchGPGPubKey", <<>>, e))
          /\ CreateDumpReturns(<<>>, Raw(e))
    /\ UNCHANGED <<envVars, preVars, exportVars, createVars, purgeVars, histVars, sideVars>>

EncryptFileOk ==
    /\ pc = "EncryptFile"
    /\ calls' = Append(calls, Call("EncryptFile", archivePath, ""))
    /\ uploadFilePath' = EncryptedPath(archivePath)
    /\ tempFiles' = tempFiles \cup {EncryptedPath(archivePath)}
    /\ pc' = "Upload"
    /\ UNCHANGED <<envVars, preVars, exportVars, dumpResp, archivePath, archived, purgeVars,
                   dumpVars, histVars, ctxDoneAt, notifyVars, otherVars>>

EncryptFileFail ==
    /\ pc = "EncryptFile"
    /\ \E e \in GpgErrs :
          /\ calls' = Append(calls, Call("EncryptFile", archivePath, e))
          /\ CreateDumpReturns(<<>>, Raw(e))
    /\ UNCHANGED <<envVars, preVars, exportVars, createVars, purgeVars, histVars, sideVars>>

\* Variant of UploadOk that reports the file it uploaded as the archive.
UploadOkReportsUploadedFile ==
    /\ pc = "Upload"
    /\ calls' = Append(calls, Call("Upload", uploadFilePath, ""))
    /\ store' = store \cup {Key(Prefix, now)}
    /\ now' = now + 1
    /\ dumpResp' = [dumpResp EXCEPT !.ArchiveLocation = uploadFilePath,
                                    !.StorageKey = Key(Prefix, now)]
    /\ CreateDumpReturns(<<dumpResp'>>, Nil)
    /\ UNCHANGED <<cfg, dirExists, files, preVars, exportVars, archivePath, uploadFilePath,
                   archived, purgeVars, histVars, sideVars>>

\* S3.Upload stores the file under prefix/instance/timestamp and returns the
\* key; CreateDump completes dumpResp and returns it.
UploadOk ==
    /\ pc = "Upload"
    /\ calls' = Append(calls, Call("Upload", uploadFilePath, ""))
    /\ store' = store \cup {Key(Prefix, now)}
    /\ now' = now + 1
    /\ dumpResp' = [dumpResp EXCEPT !.ArchiveLocation = archivePath,
                                    !.StorageKey = Key(Prefix, now)]
    /\ CreateDumpReturns(<<dumpResp'>>, Nil)
    /\ UNCHANGED <<cfg, dirExists, files, preVars, exportVars, archivePath, uploadFilePath,
                   archived, purgeVars, histVars, sideVars>>

UploadFail ==
    /\ pc = "Upload"
    /\ \E e \in StoreErrs :
          /\ calls' = Append(calls, Call("Upload", uploadFilePath, e))
          /\ CreateDumpReturns(<<>>, Raw(e))
    /\ UNCHANGED <<envVars, preVars, exportVars, createVars, purgeVars, histVars, sideVars>>

(* ----------------------- ListDumps, PurgeDumps ------------------------- *)

\* ListDumps on a listing that came back without error.
ListDumps(listing) ==
    IF Len(listing) = 0 THEN <<>> ELSE SortDateTimes(TrimPrefix(listing))

\* Variant of ListDumpsCalls without the early return on an empty listing.
ListDumpsCallsAlways(listing) ==
    <<Call("TrimPrefix", <<>>, ""), Call("SortDateTimes", <<>>, "")>>

\* The calls ListDumps makes on a listing that came back without error.
ListDumpsCalls(listing) ==
    IF Len(listing) = 0
    THEN <<>>
    ELSE <<Call("TrimPrefix", <<>>, ""), Call("SortDateTimes", <<>>, "")>>

\* Variant of NothingToDelete that reads a retention count of 0 as "keep
\* everything".
NothingToDeleteZeroKeepsAll(ks, retentionCount) ==
    Len(ks) <= retentionCount \/ retentionCount = 0

\* if len(keys) <= d.cfg.Backup.RetentionCount
NothingToDelete(ks, retentionCount) == Len(ks) <= retentionCount

\* Variant of KeysToDelete that takes the surplus from the wrong end of the
\* listing: it keeps the oldest keys.
KeysToDeleteNewest(ks, retentionCount) == SubSeq(ks, 1, Len(ks) - retentionCount)

\* Variant of KeysToDelete that starts one entry too early.
KeysToDeleteOffByOne(ks, retentionCount) ==
    SubSeq(ks, IF retentionCount > 0 THEN retentionCount ELSE 1, Len(ks))

\* Variant of KeysToDelete that takes only the first surplus key.
KeysToDeleteOneOnly(ks, retentionCount) == SubSeq(ks, retentionCount + 1, retentionCount + 1)

\* Whether the slice expression s[low:] is out of range, which makes the Go
\* runtime panic.
SliceOutOfRange(s, low) == low < 0 \/ low > Len(s)

\* keys[d.cfg.Backup.RetentionCount:]
KeysToDelete(ks, retentionCount) == SubSeq(ks, retentionCount + 1, Len(ks))

\* PurgeDumps returns e to its caller.
PurgeDumpsReturns(e) ==
    /\ pErr' = e
    /\ pc' = "PurgeDumpsReturn"
    /\ UNCHANGED <<resp, err, ret>>

\* Variant of DumpAfterCreate that runs PurgeDumps whatever CreateDump
\* returned.
DumpAfterCreateAlwaysPurges ==
    /\ pc = "CreateDumpReturn"
    /\ pc' = "ListDumps"
    /\ UNCHANGED <<envVars, preVars, exportVars, createVars, purgeVars, dumpVars, calls,
                   histVars, sideVars>>

\* Dump: CreateDump failed, its error is returned; otherwise PurgeDumps runs.
DumpAfterCreate ==
    /\ pc = "CreateDumpReturn"
    /\ IF err # Nil
       THEN ret' = [resp |-> <<>>, err |-> err] /\ pc' = "done"
       ELSE ret' = ret /\ pc' = "ListDumps"
    /\ UNCHANGED <<envVars, preVars, exportVars, createVars, purgeVars, resp, err, pErr,
                   calls, histVars, sideVars>>

\* Variant of ListOk that answers from a listing remembered from before this
\* run's upload instead of asking storage again.
ListOkCached ==
    /\ pc = "ListDumps"
    /\ \E listing \in Listings(List(store) \ {dumpResp.StorageKey}) :
          /\ keys' = ListDumps(listing)
          /\ calls' = Append(calls, Call("List", <<>>, "")) \o ListDumpsCalls(listing)
    /\ keysNil' = FALSE
    /\ IF NothingToDelete(keys', cfg.RetentionCount)
       THEN /\ PurgeDumpsReturns(Nil)
            /\ UNCHANGED <<keysToDelete, delIdx>>
       ELSE /\ keysToDelete' = KeysToDelete(keys', cfg.RetentionCount)
            /\ delIdx' = 1
            /\ pc' = "Delete"
            /\ UNCHANGED dumpVars
    /\ UNCHANGED <<envVars, preVars, exportVars, createVars, histVars, sideVars>>

\* PurgeDumps lists the dumps; with no surplus it returns at once; a slice
\* expression out of range panics, and nothing up to the caller recovers.
ListOk ==
    /\ pc = "ListDumps"
    /\ \E listing \in Listings(List(store)) :
          /\ keys' = ListDumps(listing)
          /\ calls' = Append(calls, Call("List", <<>>, "")) \o ListDumpsCalls(listing)
    /\ keysNil' = FALSE
    /\ IF NothingToDelete(keys', cfg.RetentionCount)
       THEN /\ PurgeDumpsReturns(Nil)
            /\ UNCHANGED <<keysToDelete, delIdx>>
       ELSE IF SliceOutOfRange(keys', cfg.RetentionCount)
            THEN /\ pc' = "panic"
                 /\ UNCHANGED <<keysToDelete, delIdx, dumpVars>>
            ELSE /\ keysToDelete' = KeysToDelete(keys', cfg.RetentionCount)
                 /\ delIdx' = 1
                 /\ pc' = "Delete"
                 /\ UNCHANGED dumpVars
    /\ UNCHANGED <<envVars, preVars, exportVars, createVars, histVars, sideVars>>

\* Variant of ListFail that takes a failed listing for an empty one.
ListFailIgnored ==
    /\ pc = "ListDumps"
    /\ \E e \in StoreErrs : calls' = Append(calls, Call("List", <<>>, e))
    /\ PurgeDumpsReturns(Nil)
    /\ keys' = <<>>
    /\ keysNil' = FALSE
    /\ UNCHANGED <<envVars, preVars, exportVars, createVars, keysToDelete, delIdx, histVars,
                   sideVars>>

ListFail ==
    /\ pc = "ListDumps"
    /\ \E e \in StoreErrs :
          /\ calls' = Append(calls, Call("List", <<>>, e))
          /\ PurgeDumpsReturns(Raw(e))
    /\ keys' = <<>>
    /\ keysNil' = TRUE
    /\ UNCHANGED <<envVars, preVars, exportVars, createVars, keysToDelete, delIdx, histVars,
                   sideVars>>

\* The deletion of keysToDelete[delIdx] succeeds; after the last one
\* PurgeDumps returns nil.
DeleteOk ==
    /\ pc = "Delete"
    /\ delIdx <= Len(keysToDelete)
    /\ calls' = Append(calls, Call("Delete", keysToDelete[delIdx], ""))
    /\ store' = Delete(store, keysToDelete[delIdx])
    /\ delIdx' = delIdx + 1
    /\ IF delIdx < Len(keysToDelete)
       THEN pc' = "Delete" /\ UNCHANGED dumpVars
       ELSE PurgeDumpsReturns(Nil)
    /\ UNCHANGED <<cfg, now, dirExists, files, preVars, exportVars, createVars, keys,
                   keysToDelete, keysNil, histVars, sideVars>>

\* Variant of DeleteFail in which a failed deletion is skipped and the loop
\* goes on; the error of the last failure is returned at the end.
DeleteFailContinues ==
    /\ pc = "Delete"
    /\ delIdx <= Len(keysToDelete)
    /\ \E e \in StoreErrs :
          /\ calls' = Append(calls, Call("Delete", keysToDelete[delIdx], e))
          /\ IF delIdx < Len(keysToDelete)
             THEN pc' = "Delete" /\ UNCHANGED dumpVars
             ELSE PurgeDumpsReturns(ErrDelete(keysToDelete[delIdx], e))
    /\ delIdx' = delIdx + 1
    /\ UNCHANGED <<envVars, preVars, exportVars, createVars, keys, keysToDelete, keysNil,
                   histVars, sideVars>>

\* The deletion fails: PurgeDumps returns the error naming the key.
DeleteFail ==
    /\ pc = "Delete"
    /\ delIdx <= Len(keysToDelete)
    /\ \E e \in StoreErrs :
          /\ calls' = Append(calls, Call("Delete", keysToDelete[delIdx], e))
          /\ PurgeDumpsReturns(ErrDelete(keysToDelete[delIdx], e))
    /\ UNCHANGED <<envVars, preVars, exportVars, createVars, purgeVars, histVars, sideVars>>

\* Variant of DumpAfterPurge that retracts the uploaded backup when the
\* purge failed.
DumpAfterPurgeRollsBack ==
    /\ pc = "PurgeDumpsReturn"
    /\ IF pErr # Nil
       THEN /\ ret' = [resp |-> <<>>, err |-> pErr]
            /\ store' = Delete(store, resp[1].StorageKey.ts)
       ELSE /\ ret' = [resp |-> resp, err |-> Nil]
            /\ store' = store
    /\ pc' = "done"
    /\ UNCHANGED <<cfg, now, dirExists, files, preVars, exportVars, createVars, purgeVars,
                   resp, err, pErr, calls, histVars, sideVars>>

\* Dump: a purge error replaces the result; otherwise CreateDump's result is
\* returned.
DumpAfterPurge ==
    /\ pc = "PurgeDumpsReturn"
    /\ IF pErr # Nil
       THEN ret' = [resp |-> <<>>, err |-> pErr]
       ELSE ret' = [resp |-> resp, err |-> Nil]
    /\ pc' = "done"
    /\ UNCHANGED <<envVars, preVars, exportVars, createVars, purgeVars, resp, err, pErr,
                   calls, histVars, sideVars>>

\* Dump is called again after it has returned.
DumpAgain ==
    /\ pc = "done"
    /\ runs < MaxRuns
    /\ prev' = [ran |-> TRUE, err |-> ret.err, stored |-> Uploaded]
    /\ StartRun

\* Dump is called again after the CreateDump of the previous call failed.
DumpRetry ==
    /\ pc = "done"
    /\ err # Nil
    /\ runs < MaxRuns
    /\ StartRun
    /\ UNCHANGED prev

\* Dump is called again after the previous call has returned, whatever it
\* returned.
DumpNext ==
    /\ pc = "done"
    /\ runs < MaxRuns
    /\ StartRun
    /\ UNCHANGED prev

\* PurgeDumps is called on its own, as the DumpsterIface allows.
CallPurgeDumps ==
    /\ pc = "idle"
    /\ pc' = "ListDumps"
    /\ UNCHANGED <<envVars, preVars, exportVars, createVars, purgeVars, dumpVars, calls,
                   histVars, sideVars>>

\* The caller's ctx is cancelled while Dump runs; the code never reads ctx
\* itself, it only hands it to the commands and the storage backend.
Cancel ==
    /\ pc \notin {"idle", "done"}
    /\ ~CtxDone
    /\ ctxDoneAt' = Len(calls)
    /\ UNCHANGED <<pc, envVars, preVars, exportVars, createVars, purgeVars, dumpVars, calls,
                   histVars, tempFiles, notifyVars, otherVars>>

(* ------------------------------ Notifier ------------------------------- *)

\* Largest number of notifiers registered with a Notifier.
MaxNotifiers == 3

\* The variables a notification leaves alone.
dumpsterVars ==
    <<envVars, preVars, exportVars, createVars, purgeVars, dumpVars, histVars, tempFiles,
      ctxDoneAt, otherVars>>

\* Notifier.register: the notifier is appended to the store.
Register ==
    /\ pc = "idle"
    /\ Len(notifierStore) < MaxNotifiers
    /\ notifierStore' = Append(notifierStore, [enabled |-> Unread])
    /\ UNCHANGED <<pc, dumpsterVars, calls, notifiersEnabled, method, nIdx>>

\* One of the three Notify methods of the store is called.
Notify(m) ==
    /\ method' = m
    /\ nIdx' = 1
    /\ pc' = "Enabled"
    /\ UNCHANGED <<notifiersEnabled, notifierStore>>

CallNotify ==
    /\ pc = "idle"
    /\ \E m \in Notifications : Notify(m)
    /\ UNCHANGED <<dumpsterVars, calls>>

\* The Notify method returns e ("" for nil) to its caller.
NotifyReturns(log, e) ==
    /\ calls' = Append(log, Call(method, <<>>, e))
    /\ pc' = "NotifyReturn"

\* After the notifier at position nIdx: the next one, or return nil.
NextNotifier(log) ==
    IF nIdx < Len(notifierStore)
    THEN calls' = log /\ pc' = "Notifier"
    ELSE NotifyReturns(log, "")

\* if !n.Enabled() { return ErrNotifierDisabled }
NotifyDisabled ==
    /\ pc = "Enabled"
    /\ Off \in Read(notifiersEnabled)
    /\ notifiersEnabled' = Off
    /\ NotifyReturns(calls, ErrNotifierDisabled)
    /\ UNCHANGED <<dumpsterVars, notifierStore, method, nIdx>>

\* Notifiers are enabled: the loop over the store starts; over an empty store
\* it ends at once.
NotifyEnabled ==
    /\ pc = "Enabled"
    /\ On \in Read(notifiersEnabled)
    /\ notifiersEnabled' = On
    /\ IF notifierStore = <<>>
       THEN NotifyReturns(calls, "")
       ELSE calls' = calls /\ pc' = "Notifier"
    /\ UNCHANGED <<dumpsterVars, notifierStore, method, nIdx>>

\* if !notifier.Enabled() { continue }
NotifierSkipped ==
    /\ pc = "Notifier"
    /\ Off \in Read(notifierStore[nIdx].enabled)
    /\ notifierStore' = [notifierStore EXCEPT ![nIdx].enabled = Off]
    /\ NextNotifier(calls)
    /\ nIdx' = nIdx + 1
    /\ UNCHANGED <<dumpsterVars, notifiersEnabled, method>>

\* Variant of NotifierSent in which the first error of a notifier ends the
\* loop and is returned.
NotifierSentStopsAtError ==
    /\ pc = "Notifier"
    /\ On \in Read(notifierStore[nIdx].enabled)
    /\ notifierStore' = [notifierStore EXCEPT ![nIdx].enabled = On]
    /\ \E e \in SendErrs \cup {""} :
          IF e = ""
          THEN NextNotifier(Append(calls, Call("Send", [method |-> method, notifier |-> nIdx], e)))
          ELSE NotifyReturns(Append(calls, Call("Send", [method |-> method, notifier |-> nIdx], e)), e)
    /\ nIdx' = nIdx + 1
    /\ UNCHANGED <<dumpsterVars, notifiersEnabled, method>>

\* The notifier is enabled and its method is called; its error is logged and
\* the loop goes on.
NotifierSent ==
    /\ pc = "Notifier"
    /\ On \in Read(notifierStore[nIdx].enabled)
    /\ notifierStore' = [notifierStore EXCEPT ![nIdx].enabled = On]
    /\ \E e \in SendErrs \cup {""} :
          NextNotifier(Append(calls, Call("Send", [method |-> method, notifier |-> nIdx], e)))
    /\ nIdx' = nIdx + 1
    /\ UNCHANGED <<dumpsterVars, notifiersEnabled, method>>

(* ------------------------------ doBackup ------------------------------- *)

\* doBackup returns e.
DoBackupReturns(e) ==
    /\ ret' = [resp |-> <<>>, err |-> e]
    /\ pc' = "done"

\* doBackup starts with store.Init.
DoBackup ==
    /\ pc = "idle"
    /\ pc' = "Init"
    /\ UNCHANGED <<dumpsterVars, calls, notifyVars>>

StoreInitOk ==
    /\ pc = "Init"
    /\ calls' = Append(calls, Call("Init", <<>>, ""))
    /\ pc' = "InitStore"
    /\ UNCHANGED <<dumpsterVars, notifyVars>>

StoreInitFail ==
    /\ pc = "Init"
    /\ \E e \in StoreErrs :
          /\ calls' = Append(calls, Call("Init", <<>>, e))
          /\ DoBackupReturns(Raw(e))
    /\ UNCHANGED <<envVars, preVars, exportVars, createVars, purgeVars, resp, err, pErr,
                   histVars, sideVars>>

\* Notifier.InitStore: the Discord notifier is built and registered.
InitStoreOk ==
    /\ pc = "InitStore"
    /\ calls' = Append(calls, Call("InitStore", <<>>, ""))
    /\ notifierStore' = Append(notifierStore, [enabled |-> Unread])
    /\ pc' = "CreateDump"
    /\ UNCHANGED <<dumpsterVars, notifiersEnabled, method, nIdx>>

InitStoreFail ==
    /\ pc = "InitStore"
    /\ \E e \in ClientErrs :
          /\ calls' = Append(calls, Call("InitStore", <<>>, e))
          /\ DoBackupReturns(Raw(e))
    /\ UNCHANGED <<envVars, preVars, exportVars, createVars, purgeVars, resp, err, pErr,
                   histVars, sideVars>>

\* dump.CreateDump(ctx)
CreateDump ==
    /\ pc = "CreateDump"
    /\ pc' = "RemoveAll"
    /\ runs' = runs + 1
    /\ UNCHANGED <<envVars, preVars, exportVars, createVars, purgeVars, dumpVars, calls,
                   prev, sideVars>>

\* CreateDump has returned: the failure or the success is notified.
DoBackupAfterCreate ==
    /\ pc = "CreateDumpReturn"
    /\ Notify(IF err # Nil THEN "NotifyBackupFailure" ELSE "NotifyBackupSuccess")
    /\ UNCHANGED <<dumpsterVars, calls>>

\* Variant of DoBackupAfterNotify in which the error of a notification is
\* returned.
DoBackupAfterNotifyReturnsItsError ==
    /\ pc = "NotifyReturn"
    /\ IF ~Ok(calls[Len(calls)])
       THEN DoBackupReturns(Raw(calls[Len(calls)].err))
       ELSE CASE method = "NotifyBackupFailure" -> DoBackupReturns(err)
              [] method = "NotifyBackupSuccess" -> ret' = ret /\ pc' = "ListDumps"
              [] method = "NotifyBackupDeleteFailure" -> DoBackupReturns(pErr)
    /\ UNCHANGED <<envVars, preVars, exportVars, createVars, purgeVars, resp, err, pErr, calls,
                   histVars, sideVars>>

\* The notification has returned; its error is only logged. After a failure
\* notification doBackup returns the error notified; after the success
\* notification PurgeDumps runs.
DoBackupAfterNotify ==
    /\ pc = "NotifyReturn"
    /\ CASE method = "NotifyBackupFailure" -> DoBackupReturns(err)
         [] method = "NotifyBackupSuccess" -> ret' = ret /\ pc' = "ListDumps"
         [] method = "NotifyBackupDeleteFailure" -> DoBackupReturns(pErr)
    /\ UNCHANGED <<envVars, preVars, exportVars, createVars, purgeVars, resp, err, pErr, calls,
                   histVars, sideVars>>

\* PurgeDumps has returned: its failure is notified; otherwise doBackup
\* returns nil.
DoBackupAfterPurge ==
    /\ pc = "PurgeDumpsReturn"
    /\ IF pErr # Nil
       THEN /\ Notify("NotifyBackupDeleteFailure")
            /\ ret' = ret
       ELSE /\ DoBackupReturns(Nil)
            /\ UNCHANGED notifyVars
    /\ UNCHANGED <<envVars, preVars, exportVars, createVars, purgeVars, resp, err, pErr, calls,
                   histVars, tempFiles, ctxDoneAt, otherVars>>

(* ------------------- a second Dumpster's CreateDump -------------------- *)

\* Everything but the backup location and the second run's own position.
firstRunVars ==
    <<pc, cfg, store, now, preVars, exportVars, createVars, purgeVars, dumpVars, calls,
      histVars, tempFiles, ctxDoneAt, notifyVars>>

\* The CreateDump of a second Dumpster, built by NewDumpster with the same
\* backup location, starts: its runPreChecks removes the location. The run
\* is followed as far as it takes files away from the first one.
OtherRemoveAllOk ==
    /\ otherPc = "idle"
    /\ overlap' = (overlap \/ pc \notin {"idle", "done"})
    /\ dirExists' = FALSE
    /\ files' = {}
    /\ otherPc' = "MkdirAll"
    /\ UNCHANGED firstRunVars

OtherRemoveAllFail ==
    /\ otherPc = "idle"
    /\ overlap' = (overlap \/ pc \notin {"idle", "done"})
    /\ otherPc' = "done"
    /\ UNCHANGED <<firstRunVars, dirExists, files>>

OtherMkdirAllOk ==
    /\ otherPc = "MkdirAll"
    /\ dirExists' = TRUE
    /\ otherPc' = "export"
    /\ UNCHANGED <<firstRunVars, files, overlap>>

OtherMkdirAllFail ==
    /\ otherPc = "MkdirAll"
    /\ otherPc' = "done"
    /\ UNCHANGED <<firstRunVars, dirExists, files, overlap>>

\* The second CreateDump returns.
OtherReturns ==
    /\ otherPc = "export"
    /\ otherPc' = "done"
    /\ UNCHANGED <<firstRunVars, dirExists, files, overlap>>

(* -------------------------- specifications ----------------------------- *)

RunPreChecks ==
    \/ RemoveAllOk \/ RemoveAllFail
    \/ MkdirAllOk \/ MkdirAllFail
    \/ LookPathOk \/ LookPathFail

Export ==
    \/ PsqlOk \/ PsqlFail
    \/ PgDumpOk \/ PgDumpFail
    \/ ExportReturn

ArchiveEncryptUpload ==
    \/ ArchiveDirOk \/ ArchiveDirFail
    \/ FetchGPGPubKeyOk \/ FetchGPGPubKeyFail
    \/ EncryptFileOk \/ EncryptFileFail
    \/ UploadOk \/ UploadFail

PurgeDumps ==
    \/ ListOk \/ ListFail
    \/ DeleteOk \/ DeleteFail

Next ==
    \/ Dump
    \/ RunPreChecks
    \/ Export
    \/ ArchiveEncryptUpload
    \/ DumpAfterCreate
    \/ PurgeDumps
    \/ DumpAfterPurge

\* One Dump from a fresh Dumpster.
Spec == Init /\ [][Next]_vars

NextRuns == Next \/ DumpAgain

\* Dump invoked up to MaxRuns times, one invocation after the other.
SpecRuns == Init /\ [][NextRuns]_vars

NextRetry == Next \/ DumpRetry

\* Dump invoked again, up to MaxRuns times, as long as its CreateDump fails.
SpecRetry == Init /\ [][NextRetry]_vars

NextSerial == Next \/ DumpNext

\* Dump invoked up to MaxRuns times, each call after the previous one has
\* returned.
SpecSerial == Init /\ [][NextSerial]_vars

NextPurge == CallPurgeDumps \/ PurgeDumps

\* PurgeDumps alone, on whatever storage holds.
SpecPurge == Init /\ [][NextPurge]_vars

\* PurgeDumps alone, with any retention count.
SpecPurgeAnyRetention == InitAnyRetention /\ [][NextPurge]_vars

NextCancel == Next \/ Cancel

\* One Dump whose ctx may be cancelled at any point of the run.
SpecCancel == Init /\ [][NextCancel]_vars

NotifierStore ==
    \/ NotifyDisabled \/ NotifyEnabled
    \/ NotifierSkipped \/ NotifierSent

NextNotify == Register \/ CallNotify \/ NotifierStore

\* One notification sent through a Notifier with up to MaxNotifiers
\* registered notifiers.
SpecNotify == Init /\ [][NextNotify]_vars

NextBackup ==
    \/ DoBackup
    \/ StoreInitOk \/ StoreInitFail
    \/ InitStoreOk \/ InitStoreFail
    \/ CreateDump
    \/ RunPreChecks
    \/ Export
    \/ ArchiveEncryptUpload
    \/ DoBackupAfterCreate
    \/ NotifierStore
    \/ DoBackupAfterNotify
    \/ PurgeDumps
    \/ DoBackupAfterPurge

\* One doBackup.
SpecBackup == Init /\ [][NextBackup]_vars

OtherCreateDump ==
    \/ OtherRemoveAllOk \/ OtherRemoveAllFail
    \/ OtherMkdirAllOk \/ OtherMkdirAllFail
    \/ OtherReturns

NextOverlap == Next \/ OtherCreateDump

\* One Dump, and the CreateDump of a second Dumpster that may start before,
\* during or after it.
SpecOverlap == Init /\ [][NextOverlap]_vars

(* ------------------------ the recorded calls --------------------------- *)

\* The calls of one collaborator operation, in order.
CallsOf(op) == SelectSeq(calls, LAMBDA c : c.op = op)

ArgsOf(op) == [i \in 1..Len(CallsOf(op)) |-> CallsOf(op)[i].arg]

Called(op) == \E i \in 1..Len(calls) : calls[i].op = op

Succeeded(op) == \E i \in 1..Len(calls) : calls[i].op = op /\ Ok(calls[i])

Failed(op) == \E i \in 1..Len(calls) : calls[i].op = op /\ ~Ok(calls[i])

\* CreateDump has returned to Dump.
CreateDumpReturned == pc \in {"CreateDumpReturn", "ListDumps", "Delete", "PurgeDumpsReturn", "done"}

\* export has returned to CreateDump.
ExportReturned == Succeeded("psql") /\ pc # "pg_dump"

(* ------------------------------- C1 ------------------------------------ *)

\* C1: once the enumeration has succeeded, the pg_dump attempts made so far
\* are exactly the enumerated databases up to the loop position, one attempt
\* each and in enumeration order, whatever the earlier attempts returned; and
\* when the loop is over every database has been attempted and CreateDump
\* holds the response of export (export returned no error).
C1_EveryDatabaseAttempted ==
    Succeeded("psql") =>
        /\ dbIdx \in 1..(Len(databases) + 1)
        /\ ArgsOf("pg_dump") = SubSeq(databases, 1, dbIdx - 1)
        /\ ExportReturned =>
              /\ ArgsOf("pg_dump") = databases
              /\ dumpResp.TotalDatabases = Len(databases)
              /\ dumpResp.DumpLocation = BackupLocation
              /\ \A e \in ExecErrs : err # ErrListDatabases(e)

\* A dump failed, a later one succeeded, and the export went on to the archive.
C1_Witness ==
    /\ pc = "ArchiveDir"
    /\ Len(databases) = 2
    /\ ~Ok(CallsOf("pg_dump")[1])
    /\ Ok(CallsOf("pg_dump")[2])

(* ------------------------------- C2 ------------------------------------ *)

\* C2: when preflight and enumeration have succeeded and CreateDump has
\* returned, its error is the zero-export error if and only if
\* exportedDatabases = 0; it then returns no DumpResponse, and with
\* exportedDatabases >= 1 the error is never the zero-export error.
C2_ZeroExportIffNoneExported ==
    (CreateDumpReturned /\ Succeeded("psql")) =>
        /\ (err = ErrZeroExport) <=> (exportedDatabases = 0)
        /\ (err = ErrZeroExport) => resp = <<>>
        /\ exportedDatabases = Cardinality({i \in 1..Len(calls) : calls[i].op = "pg_dump" /\ Ok(calls[i])})

\* Two databases were enumerated, both dumps failed, CreateDump returned the
\* zero-export error.
C2_Witness ==
    /\ pc = "CreateDumpReturn"
    /\ totalDatabases = 2
    /\ Len(CallsOf("pg_dump")) = 2
    /\ err = ErrZeroExport

(* ------------------------------- C3 ------------------------------------ *)

\* The collaborator operations CreateDump calls.
CreateOps ==
    {"RemoveAll", "MkdirAll", "LookPath", "psql", "pg_dump", "ArchiveDir",
     "FetchGPGPubKey", "EncryptFile", "Upload"}

CreateCalls == SelectSeq(calls, LAMBDA c : c.op \in CreateOps)

PurgeCalls == SelectSeq(calls, LAMBDA c : c.op \in {"List", "Delete"})

OpsOf(cs) == [i \in 1..Len(cs) |-> cs[i].op]

IsPrefix(s, t) == Len(s) <= Len(t) /\ s = SubSeq(t, 1, Len(s))

\* The calls of a CreateDump in which every stage succeeds, for n databases.
StagesInOrder(n, encrypt) ==
    <<"RemoveAll", "MkdirAll", "LookPath", "LookPath", "psql">>
    \o [i \in 1..n |-> "pg_dump"]
    \o <<"ArchiveDir">>
    \o (IF encrypt THEN <<"FetchGPGPubKey", "EncryptFile">> ELSE <<>>)
    \o <<"Upload">>

\* C3: the calls CreateDump has made are a prefix of the fixed stage order
\* (so no stage runs twice or out of order, and encryption only if
\* configured); a failed stage other than a single pg_dump is the last call
\* made, CreateDump has then returned its error with a nil response; the
\* archiver is called only after a database was exported, and after the
\* zero-export error neither archive nor upload was called; CreateDump
\* returns success only after the whole sequence.
C3_StagesInOrderShortCircuit ==
    /\ IsPrefix(OpsOf(CreateCalls), StagesInOrder(Len(databases), cfg.Encrypt))
    /\ \A i \in 1..Len(CreateCalls) :
          (~Ok(CreateCalls[i]) /\ CreateCalls[i].op # "pg_dump") =>
              /\ i = Len(CreateCalls)
              /\ CreateDumpReturned
              /\ resp = <<>>
              /\ err # Nil
              /\ err.cause = CreateCalls[i].err
              /\ PurgeCalls = <<>>
    /\ Called("ArchiveDir") => exportedDatabases > 0
    /\ (CreateDumpReturned /\ err = ErrZeroExport) =>
          ~Called("ArchiveDir") /\ ~Called("Upload") /\ resp = <<>>
    /\ (CreateDumpReturned /\ err # Nil) => resp = <<>>
    /\ (CreateDumpReturned /\ err = Nil) =>
          /\ OpsOf(CreateCalls) = StagesInOrder(Len(databases), cfg.Encrypt)
          /\ resp # <<>>

\* The archiver failed after a successful export: Dump has returned and the
\* archiver's call is the last one made.
C3_Witness ==
    /\ pc = "done"
    /\ Failed("ArchiveDir")
    /\ calls[Len(calls)].op = "ArchiveDir"
    /\ exportedDatabases = 1
    /\ totalDatabases = 2

(* ------------------------------- C4 ------------------------------------ *)

\* C4: with encryption configured every Upload is handed the path the
\* encryptor returned for the archive, never the archive path, and only after
\* the key fetch and the encryption succeeded; if either fails CreateDump
\* returns that error with no response and Upload is not called. Without
\* encryption neither is called and the archive path is uploaded.
C4_UploadsEncryptedWhenConfigured ==
    /\ \A i \in 1..Len(calls) :
          calls[i].op = "Upload" =>
              /\ archivePath = ArchiveFile
              /\ calls[i].arg = IF cfg.Encrypt THEN EncryptedPath(archivePath) ELSE archivePath
              /\ cfg.Encrypt =>
                    /\ calls[i].arg # archivePath
                    /\ Succeeded("FetchGPGPubKey")
                    /\ Succeeded("EncryptFile")
    /\ ~cfg.Encrypt => (~Called("FetchGPGPubKey") /\ ~Called("EncryptFile"))
    /\ (Failed("FetchGPGPubKey") \/ Failed("EncryptFile")) =>
          /\ ~Called("Upload")
          /\ CreateDumpReturned
          /\ resp = <<>>
          /\ err = Raw(calls[Len(calls)].err)

\* Encryption is configured and the encrypted file has been uploaded.
C4_Witness ==
    /\ cfg.Encrypt
    /\ Succeeded("Upload")
    /\ ArgsOf("Upload") = <<EncryptedPath(ArchiveFile)>>

(* --------------------------- C5, C6, C7 -------------------------------- *)

Max(a, b) == IF a >= b THEN a ELSE b

Min(a, b) == IF a <= b THEN a ELSE b

\* The timestamps of this instance's backups in storage.
StoredTs == {k.ts : k \in List(store)}

\* The timestamps whose Delete call succeeded in this run.
DeletedTs == {calls[i].arg : i \in {j \in 1..Len(calls) : calls[j].op = "Delete" /\ Ok(calls[j])}}

\* The backups that were in storage when PurgeDumps listed them: nothing but
\* the purge changes storage after the listing.
ListedTs == StoredTs \cup DeletedTs

\* The n most recent timestamps of T.
MostRecent(T, n) == {t \in T : Cardinality({u \in T : u > t}) < n}

\* PurgeDumps has returned to Dump.
PurgeDumpsReturned == pc \in {"PurgeDumpsReturn", "done"} /\ Called("List")

\* C5: when PurgeDumps has returned nil, with N the number of backups listed
\* and R the retention count, it made exactly max(0, N - R) Delete calls and
\* storage holds exactly the min(N, R) most recent of the listed backups (and
\* the other instance's keys, untouched); with R >= N that is no Delete call
\* and every listed backup still there.
C5_PurgeKeepsMostRecent ==
    (PurgeDumpsReturned /\ pErr = Nil) =>
        /\ Len(keys) = Cardinality(ListedTs)
        /\ Len(CallsOf("Delete")) = Max(0, Cardinality(ListedTs) - cfg.RetentionCount)
        /\ StoredTs = MostRecent(ListedTs, Min(Cardinality(ListedTs), cfg.RetentionCount))
        /\ Cardinality(StoredTs) = Min(Cardinality(ListedTs), cfg.RetentionCount)
        /\ cfg.RetentionCount >= Cardinality(ListedTs) => (CallsOf("Delete") = <<>> /\ StoredTs = ListedTs)
        /\ OtherKeys \subseteq store

\* Four backups listed, retention 2: two deletions, PurgeDumps returned nil.
C5_Witness ==
    /\ pc = "done"
    /\ pErr = Nil
    /\ cfg.RetentionCount = 2
    /\ Len(keys) = 4
    /\ Len(CallsOf("Delete")) = 2

\* C6: whether the purge completes or aborts, no Delete call, successful or
\* not, is ever made on one of the R most recent listed backups: each key a
\* Delete is called on sits at an index beyond R of the listing and has at
\* least R listed backups more recent than it, and the R most recent stay
\* in storage.
C6_NeverDeletesRetained ==
    Called("List") =>
        /\ \A i \in 1..Len(calls) :
              calls[i].op = "Delete" =>
                  /\ \E j \in (cfg.RetentionCount + 1)..Len(keys) : keys[j] = calls[i].arg
                  /\ Cardinality({u \in ListedTs : u > calls[i].arg}) >= cfg.RetentionCount
                  /\ calls[i].arg \notin MostRecent(ListedTs, cfg.RetentionCount)
        /\ Succeeded("List") => MostRecent(ListedTs, cfg.RetentionCount) \subseteq StoredTs

\* Three backups listed, retention 2: exactly the oldest was deleted and the
\* other two remain.
C6_Witness ==
    /\ pc = "done"
    /\ cfg.RetentionCount = 2
    /\ Len(keys) = 3
    /\ ArgsOf("Delete") = <<keys[3]>>
    /\ StoredTs = {keys[1], keys[2]}
    /\ keys[3] < keys[2] /\ keys[2] < keys[1]

\* C7: the Delete calls made so far are the first entries of the surplus
\* keys[R:], one call each and in that order, from the most recent surplus
\* key to the oldest; only the last call can have failed, and then PurgeDumps
\* has returned the delete error naming exactly that key, the keys deleted
\* before it are gone, and the failing key and every later surplus key are
\* still in storage.
C7_DeleteOrderAndFirstFailure ==
    Called("Delete") =>
        /\ keysToDelete = SubSeq(keys, cfg.RetentionCount + 1, Len(keys))
        /\ IsPrefix(ArgsOf("Delete"), keysToDelete)
        /\ \A i, j \in 1..Len(ArgsOf("Delete")) : i < j => ArgsOf("Delete")[i] > ArgsOf("Delete")[j]
        /\ \A i \in 1..Len(CallsOf("Delete")) :
              IF Ok(CallsOf("Delete")[i])
              THEN CallsOf("Delete")[i].arg \notin StoredTs
              ELSE /\ i = Len(CallsOf("Delete"))
                   /\ calls[Len(calls)] = CallsOf("Delete")[i]
                   /\ PurgeDumpsReturned
                   /\ pErr = ErrDelete(keysToDelete[i], CallsOf("Delete")[i].err)
                   /\ \A j \in i..Len(keysToDelete) : keysToDelete[j] \in StoredTs

\* Three surplus keys: the first was deleted, the deletion of the second
\* failed, the third was never attempted.
C7_Witness ==
    /\ pc = "done"
    /\ Len(keysToDelete) = 3
    /\ Len(CallsOf("Delete")) = 2
    /\ Ok(CallsOf("Delete")[1])
    /\ ~Ok(CallsOf("Delete")[2])
    /\ keysToDelete[1] \notin StoredTs
    /\ keysToDelete[3] \in StoredTs

(* ------------------------------- C8 ------------------------------------ *)

\* Dump has returned after a successful CreateDump and a failed PurgeDumps.
PurgeFailedAfterCreate == pc = "done" /\ err = Nil /\ pErr # Nil

\* C8 as stated: after a successful CreateDump and a failed PurgeDumps, Dump
\* returns a nil result with the purge error and the backup uploaded by this
\* run is still in storage.
C8_UploadRemainsAfterPurgeFailure ==
    PurgeFailedAfterCreate =>
        /\ ret = [resp |-> <<>>, err |-> pErr]
        /\ resp[1].StorageKey \in store

\* C8, amended: after a successful CreateDump and a failed PurgeDumps, Dump
\* returns a nil result with the purge error (the list error unchanged, or
\* the delete error), and makes no call after the failing one, so nothing is
\* rolled back; the backup uploaded by this run is still in storage whenever
\* the retention count is at least 1, and it is missing only when the
\* retention count is 0 and the purge itself deleted it as surplus before it
\* failed.
C8_NoRollbackAfterPurgeFailure ==
    PurgeFailedAfterCreate =>
        /\ ret = [resp |-> <<>>, err |-> pErr]
        /\ resp # <<>>
        /\ Succeeded("Upload")
        /\ ~Ok(calls[Len(calls)])
        /\ \/ calls[Len(calls)].op = "List" /\ pErr = Raw(calls[Len(calls)].err)
           \/ /\ calls[Len(calls)].op = "Delete"
              /\ pErr = ErrDelete(calls[Len(calls)].arg, calls[Len(calls)].err)
        /\ cfg.RetentionCount >= 1 => resp[1].StorageKey \in store
        /\ resp[1].StorageKey \notin store =>
              /\ cfg.RetentionCount = 0
              /\ resp[1].StorageKey.ts \in DeletedTs

\* A deletion failed with retention 1: Dump returned the delete error and
\* the new backup is in storage.
C8_Witness ==
    /\ PurgeFailedAfterCreate
    /\ Failed("Delete")
    /\ cfg.RetentionCount = 1
    /\ resp[1].StorageKey \in store
    /\ ret.resp = <<>>

(* ------------------------------- C9 ------------------------------------ *)

\* C9: a List or Delete call is made only after CreateDump has returned
\* success (after its Upload, and after every call of CreateDump); when
\* CreateDump failed, Dump returns exactly its error, the one of the failing
\* stage, with a nil result and no List or Delete call; when CreateDump and
\* PurgeDumps both succeeded, Dump returns the response CreateDump built,
\* unchanged, and a nil error.
C9_PurgeOnlyAfterCreateSuccess ==
    /\ PurgeCalls # <<>> =>
          /\ CreateDumpReturned
          /\ err = Nil
          /\ resp = <<dumpResp>>
          /\ Succeeded("Upload")
          /\ \A i, j \in 1..Len(calls) :
                (calls[i].op \in CreateOps /\ calls[j].op \in {"List", "Delete"}) => i < j
    /\ (pc = "done" /\ err # Nil) =>
          /\ ret = [resp |-> <<>>, err |-> err]
          /\ PurgeCalls = <<>>
          /\ err = ErrZeroExport \/ err.cause = calls[Len(calls)].err
    /\ (pc = "done" /\ err = Nil /\ pErr = Nil) =>
          /\ ret = [resp |-> <<dumpResp>>, err |-> Nil]
          /\ ret.resp = resp
          /\ dumpResp.StorageKey = Key(Prefix, now - 1)
          /\ Succeeded("List")

\* CreateDump and a purge with a deletion both succeeded, and Dump returned
\* the response.
C9_Witness ==
    /\ pc = "done"
    /\ err = Nil
    /\ pErr = Nil
    /\ Succeeded("Delete")
    /\ ret.resp = <<dumpResp>>
    /\ dumpResp.ExportedDatabases = 1
    /\ dumpResp.TotalDatabases = 2

(* ------------------------------- C10 ----------------------------------- *)

\* C10: the error Dump returns tells whether a new backup was stored: when
\* two invocations of Dump return the same error, either both stored a backup
\* or neither did.
C10_ErrorTellsWhetherBackupStored ==
    (pc = "done" /\ prev.ran /\ ret.err # Nil /\ prev.err = ret.err) =>
        (prev.stored <=> Uploaded)

(* ------------------------------- C11 ----------------------------------- *)

\* The pg_dump attempts made before ctx was cancelled.
DumpsBeforeCancel == {i \in 1..ctxDoneAt : calls[i].op = "pg_dump"}

\* ctx was cancelled inside the export loop: after the enumeration succeeded
\* and while databases were still waiting for their attempt.
CancelledInExportLoop ==
    /\ CtxDone
    /\ \E i \in 1..ctxDoneAt : calls[i].op = "psql" /\ Ok(calls[i])
    /\ Cardinality(DumpsBeforeCancel) < Len(databases)

\* C11: when ctx is cancelled inside the export loop, the loop stops: at most
\* the attempt that was in flight is made after the cancellation, the run goes
\* on neither to the archive nor to the upload, and CreateDump does not
\* return success.
C11_CancellationStopsExport ==
    CancelledInExportLoop =>
        /\ Len(CallsOf("pg_dump")) <= Cardinality(DumpsBeforeCancel) + 1
        /\ ~Called("ArchiveDir")
        /\ ~Called("Upload")
        /\ CreateDumpReturned => err # Nil

(* ------------------------------- C12 ----------------------------------- *)

\* The pg_dump attempts of this run that succeeded.
SucceededDumps == {i \in 1..Len(calls) : calls[i].op = "pg_dump" /\ Ok(calls[i])}

\* C12: at every point of the run exportedDatabases is the number of pg_dump
\* attempts that have succeeded so far, and 0 <= exportedDatabases <=
\* totalDatabases; the response CreateDump builds from the export, the one it
\* returns and the one Dump returns carry the same two counters, so the same
\* holds of them.
C12_ExportedCountsSuccesses ==
    /\ exportedDatabases = Cardinality(SucceededDumps)
    /\ 0 <= exportedDatabases
    /\ exportedDatabases <= totalDatabases
    /\ ExportReturned =>
          /\ dumpResp.ExportedDatabases = Cardinality(SucceededDumps)
          /\ dumpResp.TotalDatabases = totalDatabases
    /\ 0 <= dumpResp.ExportedDatabases
    /\ dumpResp.ExportedDatabases <= dumpResp.TotalDatabases
    /\ \A r \in {resp, ret.resp} :
          r # <<>> =>
              /\ r[1].ExportedDatabases = Cardinality(SucceededDumps)
              /\ 0 <= r[1].ExportedDatabases
              /\ r[1].ExportedDatabases <= r[1].TotalDatabases
              /\ r[1].TotalDatabases = totalDatabases

\* Of two databases one dump failed and one succeeded, and Dump returned a
\* response counting one exported of two.
C12_Witness ==
    /\ pc = "done"
    /\ ret.resp # <<>>
    /\ Len(CallsOf("pg_dump")) = 2
    /\ Cardinality(SucceededDumps) = 1
    /\ ret.resp[1].ExportedDatabases = 1
    /\ ret.resp[1].TotalDatabases = 2

(* ------------------------------- C13 ----------------------------------- *)

\* The positions that delimit the lines of s: its line feeds, and the
\* positions just before its first and just after its last character.
LineBreaks(s) == {0, Len(s) + 1} \cup {i \in 1..Len(s) : s[i] = "\n"}

\* The line of s that begins after the break b: it runs to the next break.
LineAfter(s, b) ==
    LET e == CHOOSE x \in LineBreaks(s) :
                 x > b /\ \A y \in LineBreaks(s) : y > b => x <= y
    IN  SubSeq(s, b + 1, e - 1)

\* A line without its leading and trailing whitespace: from its first to its
\* last character that is not whitespace.
Trimmed(l) ==
    LET P == {i \in 1..Len(l) : l[i] \notin Whitespace}
    IN  IF P = {}
        THEN <<>>
        ELSE SubSeq(l, CHOOSE i \in P : \A j \in P : i <= j,
                       CHOOSE i \in P : \A j \in P : j <= i)

\* The breaks of s after which a line begins that is not empty once trimmed.
NamedLines(s) ==
    {b \in LineBreaks(s) \ {Len(s) + 1} : Trimmed(LineAfter(s, b)) # <<>>}

\* Those lines, trimmed, in the order of the output.
TrimmedLines(s) ==
    [k \in 1..Cardinality(NamedLines(s)) |->
        Trimmed(LineAfter(s, CHOOSE b \in NamedLines(s) :
                                 Cardinality({c \in NamedLines(s) : c < b}) = k - 1))]

\* C13: throughout the export loop, for the output the enumeration query
\* printed, totalDatabases is the number of its lines that are not empty
\* after trimming, the enumerated names are exactly those trimmed lines in
\* the order of the output, and the databases pg_dump has been run on are the
\* first of them in that order, all of them once the loop is over.
C13_NamesAreTrimmedNonEmptyLines ==
    pc = "pg_dump" =>
        /\ totalDatabases = Cardinality(NamedLines(output))
        /\ databases = TrimmedLines(output)
        /\ ArgsOf("pg_dump") = SubSeq(TrimmedLines(output), 1, dbIdx - 1)
        /\ dbIdx > Len(databases) => ArgsOf("pg_dump") = TrimmedLines(output)

\* The output was a name with a leading blank followed by an empty line: one
\* database was counted and dumped under the trimmed name.
C13_Witness ==
    /\ pc = "pg_dump"
    /\ output = <<" ", "a", "\n">>
    /\ totalDatabases = 1
    /\ ArgsOf("pg_dump") = <<(<<"a">>)>>

(* ------------------------------- C14 ----------------------------------- *)

\* C14: the enumerated sequence is deduplicated: throughout the export loop
\* no name occurs twice in it, totalDatabases is the number of distinct
\* names, and no database is handed to pg_dump twice.
C14_NamesDeduplicated ==
    pc = "pg_dump" =>
        /\ \A i, j \in 1..Len(databases) : databases[i] = databases[j] => i = j
        /\ totalDatabases = Cardinality({databases[i] : i \in 1..Len(databases)})
        /\ \A i, j \in 1..Len(ArgsOf("pg_dump")) :
              ArgsOf("pg_dump")[i] = ArgsOf("pg_dump")[j] => i = j

(* ------------------------------- C15 ----------------------------------- *)

\* C15: when the enumeration query fails, it is the last call of the run: no
\* pg_dump is attempted, and CreateDump has returned no response and the
\* enumeration error wrapping the error of the query, which Dump returns
\* unchanged. When the query succeeds and names no database, export counts
\* totalDatabases = 0 and exportedDatabases = 0 and returns no error (the
\* enumeration error is never raised, CreateDump builds its response from the
\* counters), no pg_dump is attempted, and it is CreateDump that then fails,
\* with the zero-export error, before the archive.
C15_EnumerationFailureVersusEmptyResult ==
    /\ Failed("psql") =>
          /\ calls[Len(calls)].op = "psql"
          /\ ~Called("pg_dump")
          /\ CreateDumpReturned
          /\ resp = <<>>
          /\ err = ErrListDatabases(calls[Len(calls)].err)
          /\ pc = "done" => ret = [resp |-> <<>>, err |-> ErrListDatabases(calls[Len(calls)].err)]
    /\ (Succeeded("psql") /\ databases = <<>>) =>
          /\ totalDatabases = 0
          /\ exportedDatabases = 0
          /\ ~Called("pg_dump")
          /\ ~Called("ArchiveDir")
          /\ \A e \in ExecErrs : err # ErrListDatabases(e)
          /\ pc = "pg_dump" => err = Nil
          /\ ExportReturned =>
                /\ dumpResp.TotalDatabases = 0
                /\ dumpResp.ExportedDatabases = 0
                /\ dumpResp.DumpLocation = BackupLocation
                /\ CreateDumpReturned
                /\ err = ErrZeroExport
                /\ resp = <<>>

\* The query failed and Dump has returned the enumeration error.
C15_Witness ==
    /\ pc = "done"
    /\ Failed("psql")
    /\ ret.err = ErrListDatabases("exit status 1")
    /\ ~Called("pg_dump")

(* ------------------------------- C16 ----------------------------------- *)

\* runPreChecks has returned nil in this run: RemoveAll, MkdirAll and the two
\* LookPath calls succeeded.
PreChecksSucceeded == Len(calls) >= 4 /\ \A i \in 1..4 : Ok(calls[i])

\* The dump files this run has written.
DumpFiles == {OutFile(calls[i].arg) : i \in SucceededDumps}

\* C16: in every run, the first or one that follows a failed run, when
\* runPreChecks has just returned nil the backup location exists and is
\* empty, whatever it held when the run began (nothing, a stale file, the
\* dump files of the previous run, or the empty directory a previous
\* preflight left); so a preflight that follows a preflight leaves what the
\* first one left. From then on the location holds the dump files of this
\* run and nothing else.
C16_PreflightResetsBackupLocation ==
    /\ pc = "psql" => (dirExists /\ files = {})
    /\ PreChecksSucceeded => (dirExists /\ files = DumpFiles)

\* The second run's preflight has succeeded after a run that left dump files
\* and an archive behind: the backup location is there and empty again.
C16_Witness ==
    /\ runs = 2
    /\ pc = "psql"
    /\ tempFiles # {}
    /\ dirExists
    /\ files = {}

(* ------------------------------- C17 ----------------------------------- *)

\* A call of runPreChecks has failed in this run.
PreChecksFailed == Failed("RemoveAll") \/ Failed("MkdirAll") \/ Failed("LookPath")

\* C17: the binaries looked up so far are psql, or psql and then pg_dump,
\* each once; a lookup that fails is the last call of the run, so no later
\* binary is looked up, and CreateDump has returned no response and the error
\* '<name> not found in PATH' naming the binary of that lookup and wrapping
\* its error. After any failure of the preflight neither the enumeration
\* query nor a pg_dump has been run, and the query is only ever run after a
\* preflight in which every call succeeded.
C17_LookPathOrderAndFirstFailure ==
    /\ IsPrefix(ArgsOf("LookPath"), <<"psql", "pg_dump">>)
    /\ \A i \in 1..Len(CallsOf("LookPath")) :
          ~Ok(CallsOf("LookPath")[i]) =>
              /\ i = Len(CallsOf("LookPath"))
              /\ calls[Len(calls)].op = "LookPath"
              /\ CreateDumpReturned
              /\ resp = <<>>
              /\ err = Err(<<CallsOf("LookPath")[i].arg, "not found in PATH">>, NoKey,
                           CallsOf("LookPath")[i].err)
    /\ PreChecksFailed =>
          /\ ~Called("psql")
          /\ ~Called("pg_dump")
          /\ CreateDumpReturned
          /\ resp = <<>>
          /\ err # Nil
    /\ Called("psql") => PreChecksSucceeded

\* psql could not be resolved: pg_dump was not looked up and Dump returned
\* the error naming psql.
C17_Witness ==
    /\ pc = "done"
    /\ ArgsOf("LookPath") = <<"psql">>
    /\ Failed("LookPath")
    /\ ret.err = Err(<<"psql", "not found in PATH">>, NoKey, "executable file not found")

(* ------------------------------- C18 ----------------------------------- *)

\* The encryption or the upload failed after the archiver had succeeded.
FailedAfterArchive ==
    /\ Succeeded("ArchiveDir")
    /\ Failed("FetchGPGPubKey") \/ Failed("EncryptFile") \/ Failed("Upload")

\* p names a file inside the backup location.
InBackupLocation(p) == IsPrefix(BackupLocation, p) /\ p # BackupLocation

C19_EmptyListing ==
    (Succeeded("List") /\ ListedTs = {}) =>
        /\ keys = <<>>
        /\ ~keysNil
        /\ OpsOf(calls) = <<"List">>
        /\ ~Called("TrimPrefix")
        /\ ~Called("SortDateTimes")
        /\ ~Called("Delete")
        /\ PurgeDumpsReturned
        /\ pErr = Nil
        /\ store = OtherKeys

\* PurgeDumps has returned nil on storage without a backup of this instance,
\* although the retention count leaves nothing to keep.
C19_Witness ==
    /\ pc = "PurgeDumpsReturn"
    /\ Succeeded("List")
    /\ StoredTs = {}
    /\ cfg.RetentionCount = 0
    /\ keys = <<>>
    /\ pErr = Nil

(* ------------------------------- C20 ----------------------------------- *)

\* C20: ListDumps hands PurgeDumps an error exactly when List failed. After a
\* failed List the key sequence is nil, List is the only call made (no
\* TrimPrefix, no sort, no Delete) and PurgeDumps has returned the error of
\* List unchanged; after a successful List the sequence is not nil and
\* PurgeDumps returns nil or the error of a Delete, never a bare storage
\* error.
C20_ListErrorIffListFails ==
    Called("List") =>
        /\ Failed("List") =>
              /\ keysNil
              /\ keys = <<>>
              /\ OpsOf(calls) = <<"List">>
              /\ ~Called("Delete")
              /\ PurgeDumpsReturned
              /\ pErr = Err(<<>>, NoKey, calls[1].err)
        /\ Succeeded("List") =>
              /\ ~keysNil
              /\ \A e \in StoreErrs : pErr # Err(<<>>, NoKey, e)
              /\ pErr # Nil => Failed("Delete")

\* List failed on storage holding more backups than the retention count:
\* PurgeDumps returned the storage error and deleted nothing.
C20_Witness ==
    /\ pc = "PurgeDumpsReturn"
    /\ Failed("List")
    /\ Cardinality(StoredTs) > cfg.RetentionCount
    /\ pErr = Err(<<>>, NoKey, "access denied")
    /\ ~Called("Delete")

(* ------------------------------- C21 ----------------------------------- *)

\* The timestamps PurgeDumps works on, as a set.
KeysListed == {keys[i] : i \in 1..Len(keys)}

\* C21: no listing is remembered from one call to the next: a PurgeDumps that
\* has got past its listing has made exactly one List call, none before it
\* started, and the keys it decides from are exactly the backups storage held
\* at that call: the backup this Dump has just uploaded is among them, a
\* backup deleted by an earlier Dump is not, and the surplus is taken from
\* that listing alone.
C21_ListingIsFresh ==
    /\ pc = "ListDumps" => ~Called("List")
    /\ pc \in {"Delete", "PurgeDumpsReturn"} \/ (pc = "done" /\ err = Nil) =>
          /\ Len(CallsOf("List")) = 1
          /\ Succeeded("List") =>
                /\ KeysListed = ListedTs
                /\ Len(keys) = Cardinality(ListedTs)
                /\ Uploaded => dumpResp.StorageKey.ts \in KeysListed
                /\ Called("Delete") => keysToDelete = KeysToDelete(keys, cfg.RetentionCount)

\* The second Dump's listing holds the backup it has just uploaded and no
\* longer the one the first Dump uploaded and then purged.
C21_Witness ==
    /\ pc = "done"
    /\ runs = 2
    /\ now = MaxStored + 3
    /\ Succeeded("List")
    /\ (MaxStored + 1) \notin KeysListed
    /\ (MaxStored + 2) \in KeysListed

(* ------------------------------- C22 ----------------------------------- *)

\* C22: when CreateDump has returned success, its response carries the two
\* counters of the export stage (the databases enumerated and the pg_dump
\* calls that succeeded), the backup location as dump location, the key the
\* one successful Upload stored the backup under as storage key, and the
\* path the archiver returned as archive location: with encryption on, that
\* is the plaintext archive and not the encrypted file handed to Upload.
C22_ResponseOfCreateDump ==
    (CreateDumpReturned /\ err = Nil) =>
        /\ resp # <<>>
        /\ resp[1].TotalDatabases = totalDatabases
        /\ resp[1].TotalDatabases = Len(databases)
        /\ resp[1].ExportedDatabases = exportedDatabases
        /\ resp[1].ExportedDatabases = Cardinality(SucceededDumps)
        /\ resp[1].DumpLocation = BackupLocation
        /\ Len(CallsOf("Upload")) = 1
        /\ Succeeded("Upload")
        /\ resp[1].StorageKey = Key(Prefix, now - 1)
        /\ pc = "CreateDumpReturn" => resp[1].StorageKey \in store
        /\ resp[1].ArchiveLocation = ArchiveFile
        /\ resp[1].ArchiveLocation = archivePath
        /\ IF cfg.Encrypt
           THEN /\ ArgsOf("Upload") = <<EncryptedPath(ArchiveFile)>>
                /\ resp[1].ArchiveLocation # ArgsOf("Upload")[1]
           ELSE ArgsOf("Upload") = <<ArchiveFile>>

\* With encryption on, one of two databases exported: the encrypted file was
\* uploaded and the response names the plaintext archive.
C22_Witness ==
    /\ pc = "CreateDumpReturn"
    /\ err = Nil
    /\ cfg.Encrypt
    /\ resp[1].TotalDatabases = 2
    /\ resp[1].ExportedDatabases = 1
    /\ resp[1].ArchiveLocation = ArchiveFile
    /\ ArgsOf("Upload") = <<EncryptedPath(ArchiveFile)>>
    /\ resp[1].StorageKey \in store

(* ------------------------------- C26 ----------------------------------- *)

\* Dump has returned success.
DumpSucceeded == pc = "done" /\ ret.err = Nil

\* C26: every upload is keyed more recent than all stored backups. When Dump
\* has returned success, the backup it uploaded is in storage exactly when
\* the retention count is at least 1. With a retention count of 0 the purge
\* has deleted every backup it listed, the new one first, storage holds no
\* backup of the instance, and Dump has still returned the response naming
\* the key of the deleted backup.
C26_UploadSurvivesIffRetentionPositive ==
    DumpSucceeded =>
        /\ ret.resp # <<>>
        /\ ret.resp[1].StorageKey = Key(Prefix, now - 1)
        /\ \A t \in ListedTs : t <= ret.resp[1].StorageKey.ts
        /\ ret.resp[1].StorageKey \in store <=> cfg.RetentionCount >= 1
        /\ cfg.RetentionCount = 0 =>
              /\ StoredTs = {}
              /\ DeletedTs = KeysListed
              /\ ArgsOf("Delete") = keys
              /\ ArgsOf("Delete")[1] = ret.resp[1].StorageKey.ts
              /\ \A i \in 1..Len(CallsOf("Delete")) : Ok(CallsOf("Delete")[i])

\* Retention 0 with two older backups: all three were deleted and Dump
\* returned success with the key of the backup that is gone.
C26_Witness ==
    /\ DumpSucceeded
    /\ cfg.RetentionCount = 0
    /\ Len(keys) = 3
    /\ Len(CallsOf("Delete")) = 3
    /\ ret.resp[1].StorageKey \notin store
    /\ ret.resp[1].StorageKey.ts = keys[1]

(* ------------------------------- C27 ----------------------------------- *)

\* C27: over consecutive Dump calls with one retention count R, in which an
\* upload or a purge may fail and leave more than R backups behind, whenever
\* a Dump has returned success storage holds at most R backups of the
\* instance, and they are the most recent of those it held when this Dump
\* listed them: the purge of the successful Dump has removed the whole
\* surplus, whichever call left it.
C27_SuccessLeavesAtMostRetained ==
    DumpSucceeded =>
        /\ Cardinality(StoredTs) <= cfg.RetentionCount
        /\ Cardinality(StoredTs) = Min(Cardinality(ListedTs), cfg.RetentionCount)
        /\ StoredTs = MostRecent(ListedTs, cfg.RetentionCount)
        /\ \A t \in ListedTs \ StoredTs : \A u \in StoredTs : t < u
        /\ ListedTs \ StoredTs = DeletedTs

\* The first Dump uploaded and its purge removed nothing of a surplus of
\* MaxStored backups; the second Dump listed them all with both uploads and,
\* with retention 1, left only its own backup.
C27_Witness ==
    /\ DumpSucceeded
    /\ runs = 2
    /\ cfg.RetentionCount = 1
    /\ Len(keys) = MaxStored + 2
    /\ StoredTs = {MaxStored + 2}
    /\ Len(CallsOf("Delete")) = MaxStored + 1

(* ------------------------------- C28 ----------------------------------- *)

\* C28: PurgeDumps ends with a normal result for every retention count, a
\* negative one included: the slice expression keys[R:] never aborts the run.
C28_PurgeNeverPanics == pc # "panic"

(* ------------------------------- C24 ----------------------------------- *)

\* The positions of the registered notifiers whose Enabled() is true.
EnabledNotifiers ==
    SelectSeq([i \in 1..Len(notifierStore) |-> i], LAMBDA i : notifierStore[i].enabled = On)

\* The notifiers invoked so far, by position in the store.
Invoked == [i \in 1..Len(CallsOf("Send")) |-> CallsOf("Send")[i].arg.notifier]

NotifiedAt(m) == {i \in 1..Len(calls) : calls[i].op = m}

\* doBackup has returned.
DoBackupReturned == pc = "done"

\* C23: in doBackup, once CreateDump has returned and its notification is
\* over, exactly one of NotifyBackupSuccess and NotifyBackupFailure has been
\* invoked, the first after a success and the second after a failure, after
\* every call of CreateDump and before any List or Delete; List and Delete
\* are called only after CreateDump succeeded; when doBackup has returned,
\* NotifyBackupDeleteFailure has been invoked once if PurgeDumps failed and
\* not at all otherwise; and doBackup returns the error of the first of
\* store.Init, InitStore, CreateDump and PurgeDumps that failed, nil if none
\* did, whatever the notifications returned.
C23_DoBackupNotifiesAndReturns ==
    /\ \A i \in 1..Len(calls) :
          /\ calls[i].op \in {"NotifyBackupSuccess", "NotifyBackupFailure"} =>
                /\ \A j \in 1..Len(calls) : calls[j].op \in CreateOps => j < i
                /\ \A j \in 1..Len(calls) : calls[j].op \in {"List", "Delete"} => i < j
                /\ (calls[i].op = "NotifyBackupSuccess") <=> (err = Nil)
                /\ Succeeded("Upload") <=> (err = Nil)
          /\ calls[i].op \in {"List", "Delete"} =>
                /\ err = Nil
                /\ Succeeded("Upload")
                /\ NotifiedAt("NotifyBackupSuccess") # {}
          /\ calls[i].op = "NotifyBackupDeleteFailure" =>
                /\ pErr # Nil
                /\ \A j \in 1..Len(calls) : calls[j].op \in {"List", "Delete"} => j < i
    /\ (pc \in {"ListDumps", "Delete", "PurgeDumpsReturn"} \/ (DoBackupReturned /\ runs = 1)) =>
          Cardinality(NotifiedAt("NotifyBackupSuccess") \cup NotifiedAt("NotifyBackupFailure")) = 1
    /\ DoBackupReturned =>
          /\ Cardinality(NotifiedAt("NotifyBackupDeleteFailure")) = (IF pErr # Nil THEN 1 ELSE 0)
          /\ pErr # Nil <=> (Failed("List") \/ Failed("Delete"))
          /\ runs = 0 <=> (Failed("Init") \/ Failed("InitStore"))
          /\ ret.err = (IF Failed("Init") THEN Raw(CallsOf("Init")[1].err)
                        ELSE IF Failed("InitStore") THEN Raw(CallsOf("InitStore")[1].err)
                        ELSE IF err # Nil THEN err
                        ELSE pErr)
          /\ ret.err = Nil <=>
                /\ Succeeded("Init")
                /\ Succeeded("InitStore")
                /\ Succeeded("Upload") /\ err = Nil
                /\ Succeeded("List") /\ ~Failed("Delete") /\ pErr = Nil

\* The success notification was sent and failed, a deletion of the purge
\* failed, the delete-failure notification went out, and doBackup returned
\* the purge error.
C23_Witness ==
    /\ DoBackupReturned
    /\ Failed("Delete")
    /\ ret.err = pErr
    /\ pErr # Nil
    /\ Len(CallsOf("Send")) = 2
    /\ ~Ok(CallsOf("Send")[1])
    /\ CallsOf("Send")[1].arg.method = "NotifyBackupSuccess"
    /\ Ok(CallsOf("Send")[2])
    /\ CallsOf("Send")[2].arg.method = "NotifyBackupDeleteFailure"

(* ------------------------------- C25 ----------------------------------- *)

\* The archive this run uploaded lacks a dump file the run has counted.
ArchiveLacksCountedDump == Succeeded("ArchiveDir") /\ ~(DumpFiles \subseteq archived)

\* C25: nothing keeps two CreateDump runs from working on the one backup
\* location. When the archive of a run lacks a dump file the run has counted
\* in exportedDatabases, the run has overlapped with the CreateDump of
\* another Dumpster, whose preflight removed the file; a run that shares no
\* moment with another one archives exactly the dump files it has written.
C25_OnlyOverlapLosesDumpFiles ==
    /\ ArchiveLacksCountedDump => overlap
    /\ (Succeeded("ArchiveDir") /\ ~overlap) => archived = DumpFiles
    /\ (pc \notin {"idle", "done"} /\ otherPc \notin {"idle", "done"}) => overlap

\* Two databases were exported and counted, the preflight of the second run
\* emptied the backup location, and the first run archived and uploaded an
\* empty archive while reporting two exported databases.
C25_Witness ==
    /\ overlap
    /\ Succeeded("Upload")
    /\ resp # <<>>
    /\ resp[1].ExportedDatabases = 2
    /\ Cardinality(DumpFiles) = 2
    /\ archived = {}
    /\ ArchiveLacksCountedDump

====
